---- MODULE Spec2Model ----
(***************************************************************************)
(* Frame-buffer lifecycle and capture state machine of alliedcam.c.        *)
(*                                                                         *)
(* One camera handle, one caller thread.  Every transport (VmbC) call is   *)
(* a step whose outcome is chosen nondeterministically; the library code   *)
(* around it is translated from src/src/alliedcam.c.  allied_start_capture *)
(* and allied_stop_capture advance one transport call per step; the other  *)
(* operations run atomically up to the point where they call               *)
(* allied_stop_capture.  ALLIED_DEBUG is 0 (alliedcam.h:29), so NDEBUG is  *)
(* defined (alliedcam.c:41-43) and every assert() is compiled out.         *)
(***************************************************************************)
EXTENDS Integers, Sequences, FiniteSets, TLC

\* ------------------------------------------------------------------ bounds
MaxAllocs == 4          \* blocks the heap can hold at a time
MaxPayload == 2         \* payload sizes the transport can report: 1..MaxPayload
MaxAlign == 2           \* raw StreamBufferAlignment values: 0..MaxAlign
MaxBufSize == 3         \* bufsize arguments of allied_open_camera_generic
ALLIED_MAX_FRAMES == 2  \* build-time macro used at alliedcam.c:464, scaled down
MaxCompletions == 2     \* frame completions the transport delivers in a run
MaxThreads == 2         \* threads that call allied_init_api at the same time
MaxBinning == 2         \* binning factors the transport can report: 1..MaxBinning
MaxListLen == 1         \* entries an enumeration feature can have: 0..MaxListLen

NULL == 0
DANGLING == -1          \* any pointer to a block that has been freed
Ptrs == 1..MaxAllocs
Payloads == 1..MaxPayload
RawAligns == 0..MaxAlign
BufSizes == 1..MaxBufSize
BinValues == 1..MaxBinning
ListLens == 0..MaxListLen
\* The two arrays of allied_get_feature_enum_list, allocated apart from the
\* blocks of the handle.
EnumPtrs == (MaxAllocs + 1)..(MaxAllocs + 2)
\* Pointer values that are not heap blocks of the library, as numbers apart
\* from NULL, DANGLING and Ptrs.
Threads == 1..MaxThreads
CallbackFn == -2            \* &Callback, the AlliedCaptureCallback of examples/main.c
StatPtr == -3               \* &stat, the user_data examples/main.c passes with it
JUNK == -4                  \* what a user callback may scribble into a slot
Callbacks == {CallbackFn}
UserData == {StatPtr}

\* VmbError_t values the code names, and the errors the transport may return.
TErrors == {"Timeout", "InvalidCall"}
Results == {"Success"} \cup TErrors
AnyError == TErrors \cup {"NotInitialized", "NotFound", "BadParameter", "Busy",
                          "Resources", "InternalFault"}

VARIABLES
    is_init,      \* static atomic_bool is_init
    href,         \* the caller's AlliedCameraHandle_t variable (NULL or an address)
    live,         \* heap: the allocated blocks some pointer refers to
    leaked,       \* heap: some allocated block has lost its last pointer
    dfree,        \* heap: some address was passed to free() while not allocated
    hnd,          \* _AlliedCameraHandle_s: acquiring, streaming, framebuf
    fb,           \* AlliedFrameBuffer_s, plus the contents of the frames array
    devOpen,      \* transport: the device is open
    tCapturing,   \* transport: capture engine running
    tAcquiring,   \* transport: AcquisitionStart in effect
    tAnnounced,   \* transport: frame descriptors announced and not revoked
    tQueued,      \* transport: frame descriptors in the receive queue
    payloadSize,  \* transport: current payload size
    pc,           \* caller thread: position inside the running API call
    i,            \* caller thread: loop index of allied_start_capture
    lerr,         \* caller thread: err of allied_start_capture
    lalign,       \* caller thread: alignment of allied_realloc_framebuffer
    lpayload,     \* caller thread: payloadSize of allied_realloc_framebuffer
    call,         \* the API call running (err "Pending") or just returned
    tcalls,       \* transport functions called during that API call
    ffail,        \* first transport call that failed during that API call
    annCall,      \* descriptors announced during that API call
    relay,        \* completion thread: position and locals of FrameCaptureCallback
    rstat,        \* completions delivered, user callbacks run, requeue calls made
    startups,     \* transport: calls of VmbStartup that succeeded
    hooks,        \* C runtime: functions registered with atexit()
    ipc,          \* concurrent callers of allied_init_api: position of each
    ierr,         \* concurrent callers of allied_init_api: err of each
    rfreed,       \* blocks allied_realloc_framebuffer freed during that API call
    ralloc,       \* blocks allied_realloc_framebuffer allocated during that API call
    aq            \* last alignment query of allied_alloc_framebuf in that API call

prog == <<is_init, href, live, leaked, dfree, hnd, fb>>
transport == <<devOpen, tCapturing, tAcquiring, tAnnounced, tQueued, payloadSize>>
locals == <<i, lerr, lalign, lpayload>>
ghost == <<tcalls, ffail, annCall>>
completion == <<relay, rstat>>
runtime == <<startups, hooks>>
initThreads == <<ipc, ierr>>
rghost == <<rfreed, ralloc, aq>>
vars == <<prog, transport, pc, locals, call, ghost, completion, runtime,
          initThreads, rghost>>

\* ----------------------------------------------------------------- records
\* memset(0) of both structures (alliedcam.c:305, 311, 616).
\* frames[k].context[0..2] as allied_realloc_framebuffer leaves them
\* (alliedcam.c:472, 477): zeroed but for the handle back-reference.
Slots(h, data, cb) == [h |-> h, data |-> data, cb |-> cb]
Contexts(n, ihandle) == [k \in 0..(n - 1) |-> Slots(ihandle, NULL, NULL)]

ZeroFb == [alloc_size |-> 0, alignment |-> 0, num_frames |-> 0, buffer |-> NULL,
           frames |-> NULL, announced |-> FALSE,
           context |-> Contexts(0, NULL),   \* frames[k].context, per frame
           bufferSize |-> 0,   \* frames[k].bufferSize, the same for every k
           base |-> NULL]      \* frames[k].buffer = base + k * bufferSize
ZeroHnd == [acquiring |-> FALSE, streaming |-> FALSE, framebuf |-> NULL]

NoFail == [fn |-> "none", err |-> "Success"]
Fail(fn, e) == IF ffail.fn = "none" THEN [fn |-> fn, err |-> e] ELSE ffail

\* The descriptor &frames[k] of frame array arr whose buffer lies in buf.
Desc(arr, buf, k) == [arr |-> arr, buf |-> buf, idx |-> k]
CurDesc(k) == Desc(fb.frames, fb.base, k)

\* ------------------------------------------------------------------- heap
Min(S) == CHOOSE x \in S : \A y \in S : x <= y
\* malloc/aligned_alloc: NULL on failure, else the address of a block not
\* allocated in lv.
Malloc(ok, lv) ==
    IF ok /\ Ptrs \ lv # {}
    THEN Min(Ptrs \ lv) ELSE NULL
\* free(): what the pointers held by the transport look like afterwards.
AfterFree(S, freed) ==
    {[d EXCEPT !.arr = IF d.arr \in freed THEN DANGLING ELSE d.arr,
               !.buf = IF d.buf \in freed THEN DANGLING ELSE d.buf] : d \in S}

\* ---------------------------------------------------------------- helpers
\* Faulty variant of NotInitialized: the check of the flag is missing.
NotInitialized_Unchecked(flag) == FALSE

\* alliedcam.c:204, 274, 399, 506, 570, 623, 640, 722, 797, 815, 864: the
\* test `atomic_load(&is_init) == false` that opens every API function.
NotInitialized(flag) == ~flag

\* Faulty variant of ClampAlignment: a value below 1 is replaced by 2.
ClampAlignment_ToTwo(n) == IF n < 1 THEN 2 ELSE n

\* alliedcam.c:387-390.
ClampAlignment(n) == IF n < 1 THEN 1 ELSE n

\* alliedcam.c:370-394.  infoErr: result of VmbCameraInfoQueryByHandle,
\* getOk: whether VmbFeatureIntGet succeeded, raw: the value it wrote.  The
\* result carries along getOk and, as raw, nStreamBufferAlignment as line
\* 387 finds it (FALSE and 1 when the feature was not read at all).
VmbGetBufferAlignmentByHandle(infoErr, getOk, raw) ==
    IF infoErr # "Success"
    THEN [err |-> infoErr, alignment |-> 1, getOk |-> FALSE, raw |-> 1]
    ELSE LET n1 == IF getOk THEN raw ELSE 1
             n2 == ClampAlignment(n1)
         IN [err |-> "Success", alignment |-> n2, getOk |-> getOk, raw |-> n1]

AlignResults == {VmbGetBufferAlignmentByHandle(e, g, r) :
                    e \in Results, g \in BOOLEAN, r \in RawAligns}
\* The same for a caller that looks at the result and *alignment only
\* (alliedcam.c:432).
AlignOutcomes == {[err |-> a.err, alignment |-> a.alignment] : a \in AlignResults}

\* What allied_alloc_framebuf did with its alignment query: the query, and
\* the alignment it passed to aligned_alloc (0: aligned_alloc not called).
NoQuery == [err |-> "none", getOk |-> FALSE, raw |-> 1, used |-> 0]
Query(ar) == [err |-> ar.err, getOk |-> ar.getOk, raw |-> ar.raw,
              used |-> IF ar.err = "Success" THEN ar.alignment ELSE 0]

\* alliedcam.c:598-618: the structure after the call.
allied_free_framebuf(f, frame_only) ==
    IF frame_only
    THEN [f EXCEPT !.frames = NULL, !.bufferSize = 0, !.base = NULL,
                   !.context = Contexts(0, NULL)]
    ELSE ZeroFb
\* alliedcam.c:601-615: the addresses the call passes to free().
FreedByFreeFramebuf(f, frame_only) ==
    (IF f.frames # NULL THEN {f.frames} ELSE {})
      \cup (IF ~frame_only /\ f.buffer # NULL THEN {f.buffer} ELSE {})

\* alliedcam.c:396-422.  ar: result of the alignment query, okBuf: whether
\* aligned_alloc succeeds, lv: the blocks allocated before the call.
allied_alloc_framebuf(f, lv, bufsize, ar, okBuf) ==
    IF NotInitialized(is_init)
    THEN [err |-> "NotInitialized", fb |-> f, live |-> lv, aq |-> NoQuery]
    ELSE IF bufsize = 0
    THEN [err |-> "BadParameter", fb |-> f, live |-> lv, aq |-> NoQuery]
    ELSE IF ar.err # "Success"
    THEN [err |-> ar.err, fb |-> f, live |-> lv, aq |-> Query(ar)]
    ELSE LET sz == (bufsize \div ar.alignment) * ar.alignment
             p == Malloc(okBuf, lv)
         IN IF p = NULL
            THEN [err |-> "Resources", fb |-> f, live |-> lv, aq |-> Query(ar)]
            ELSE [err |-> "Success",
                  fb |-> [f EXCEPT !.buffer = p, !.alloc_size = sz,
                                   !.alignment = ar.alignment],
                  live |-> lv \cup {p}, aq |-> Query(ar)]

\* Faulty variant of NeedRealloc: the buffer is reallocated on every call.
NeedRealloc_Always(f, alignment, payload) == TRUE

\* alliedcam.c:438: whether the buffer itself must be reallocated.
NeedRealloc(f, alignment, payload) ==
    f.alignment # alignment \/ f.alloc_size < payload

\* Faulty variant of NumFrames: the quotient is rounded up.
NumFrames_RoundedUp(alloc_size, payload) ==
    ((alloc_size + payload - 1) \div payload) % (ALLIED_MAX_FRAMES + 1)

\* alliedcam.c:464.
NumFrames(alloc_size, payload) ==
    (alloc_size \div payload) % (ALLIED_MAX_FRAMES + 1)

\* alliedcam.c:436-483: allied_realloc_framebuffer after its call of
\* allied_stop_capture returned success.  The result names the blocks the
\* call freed and allocated, and the alignment query of the
\* allied_alloc_framebuf it called (NoQuery when it called none).
ReallocBody(f, lv, ihandle, alignment, payload, ar, okBuf, okFrm) ==
    LET a1 == (f.alloc_size \div alignment) * alignment
        a2 == IF a1 > payload THEN a1 ELSE payload
        need == NeedRealloc(f, alignment, payload)
        fr1 == IF need THEN FreedByFreeFramebuf(f, FALSE) ELSE {}
        r1 == IF need
              THEN allied_alloc_framebuf(allied_free_framebuf(f, FALSE),
                                         lv \ fr1, a2, ar, okBuf)
              ELSE [err |-> "Success", fb |-> f, live |-> lv, aq |-> NoQuery]
        g == r1.fb
        al1 == IF need /\ r1.err = "Success" THEN {g.buffer} ELSE {}
    IN IF r1.err # "Success"
       THEN [err |-> r1.err, fb |-> r1.fb, live |-> r1.live, freed |-> fr1,
             alloced |-> al1, aq |-> r1.aq]
       ELSE IF g.frames = NULL \/ g.bufferSize # payload
       THEN LET g1 == allied_free_framebuf(g, TRUE)
                fr2 == FreedByFreeFramebuf(g, TRUE)
                lv2 == r1.live \ fr2
                q == Malloc(okFrm, lv2)
            IN IF q = NULL
               THEN [err |-> "Resources", fb |-> g1, live |-> lv2,
                     freed |-> fr1 \cup fr2, alloced |-> al1, aq |-> r1.aq]
               ELSE [err |-> "Success",
                     fb |-> [g1 EXCEPT !.frames = q,
                                       !.num_frames = NumFrames(g1.alloc_size, payload),
                                       !.announced = FALSE,
                                       !.context =
                                           Contexts(NumFrames(g1.alloc_size, payload),
                                                    ihandle),
                                       !.bufferSize = payload,
                                       !.base = g1.buffer],
                     live |-> lv2 \cup {q},
                     freed |-> fr1 \cup fr2, alloced |-> al1 \cup {q},
                     aq |-> r1.aq]
       ELSE [err |-> "Success", fb |-> g, live |-> r1.live, freed |-> fr1,
             alloced |-> al1, aq |-> r1.aq]

\* The completion thread outside FrameCaptureCallback.
RelayIdle == [pc |-> "idle", frame |-> 0, entry |-> Slots(NULL, NULL, NULL),
              touched |-> {},
              ihandle |-> NULL, user_data |-> NULL, callback_handle |-> NULL]

\* ------------------------------------------------------------------- Init
Init ==
    /\ is_init = FALSE
    /\ href = NULL
    /\ live = {}
    /\ leaked = FALSE
    /\ dfree = FALSE
    /\ hnd = ZeroHnd
    /\ fb = ZeroFb
    /\ devOpen = FALSE
    /\ tCapturing = FALSE
    /\ tAcquiring = FALSE
    /\ tAnnounced = {}
    /\ tQueued = {}
    /\ payloadSize \in Payloads
    /\ pc = "idle"
    /\ i = 0
    /\ lerr = "Success"
    /\ lalign = 0
    /\ lpayload = 0
    /\ call = [op |-> "none", err |-> "Success", arg |-> <<>>]
    /\ tcalls = {}
    /\ ffail = NoFail
    /\ annCall = {}
    /\ relay = RelayIdle
    /\ rstat = [delivered |-> 0, calls |-> 0, requeues |-> 0]
    /\ startups = 0
    /\ hooks = 0
    /\ ipc = [t \in Threads |-> "idle"]
    /\ ierr = [t \in Threads |-> "Success"]
    /\ rfreed = {}
    /\ ralloc = {}
    /\ aq = NoQuery

\* The record of an API call: its name, its result and its arguments.
NoArg == <<>>
CallRec(op, e, arg) == [op |-> op, err |-> e, arg |-> arg]
CurArg(op) == IF call.op = op THEN call.arg ELSE NoArg

\* The API call op, made with arguments arg, returns e to the caller.
ReturnWith(op, e, arg) ==
    /\ pc' = "ret"
    /\ call' = CallRec(op, e, arg)
    /\ i' = 0
    /\ lerr' = "Success"
    /\ lalign' = 0
    /\ lpayload' = 0

Return(op, e) == ReturnWith(op, e, CurArg(op))

HandleLive == href # NULL /\ href \in live
\* The calls a caller makes on its handle variable: on an open handle, or,
\* before the runtime is initialized, on the variable as it is (no function
\* reads through the handle before it has tested is_init).
MayCall == HandleLive \/ ~is_init

\* ------------------------------------------------------- runtime and open
\* Faulty variant of StartupNeeded: the flag is not looked at.
StartupNeeded_Always(flag) == TRUE

\* alliedcam.c:186: the runtime is started only when the flag is false.
StartupNeeded(flag) == flag = FALSE

\* alliedcam.c:183-197, called by one thread.  startup: the result of
\* VmbStartup; atexit() is reached, and the flag stored, only after a
\* startup that succeeded.
allied_init_api ==
    /\ pc = "idle"
    /\ \E startup \in Results :
         IF ~StartupNeeded(is_init)
         THEN /\ Return("init_api", "Success")
              /\ tcalls' = {}
              /\ ffail' = NoFail
              /\ UNCHANGED <<is_init, runtime>>
         ELSE /\ Return("init_api", startup)
              /\ tcalls' = {"VmbStartup"}
              /\ ffail' = IF startup = "Success" THEN NoFail
                          ELSE [fn |-> "VmbStartup", err |-> startup]
              /\ startups' = IF startup = "Success" THEN startups + 1 ELSE startups
              /\ hooks' = IF startup = "Success" THEN hooks + 1 ELSE hooks
              /\ is_init' = IF startup = "Success" THEN TRUE ELSE is_init
    /\ annCall' = {}
    /\ UNCHANGED <<href, live, leaked, dfree, hnd, fb, transport>>
    /\ UNCHANGED <<completion, initThreads, rghost>>

\* What allied_open_camera_generic returns from label cleanup when a malloc
\* failed (alliedcam.c:300-310, 347-352): err was last written by
\* allied_list_cameras when id was NULL, and was never written otherwise.
OpenErrAfterMallocFail(idNull) ==
    IF idNull THEN {"Success"} ELSE Results \cup AnyError

\* alliedcam.c:341-352, label cleanup_close: the device is closed (result
\* ignored), framebuf and ihandle are freed.  newHref is what *handle holds,
\* lost whether a block stays allocated that nothing refers to any more.
OpenCleanupClose(e, closeOk, newHref, lost) ==
    /\ Return("open", e)
    /\ devOpen' = ~closeOk
    /\ href' = newHref
    /\ leaked' = (leaked \/ lost)
    /\ hnd' = ZeroHnd
    /\ fb' = ZeroFb
    /\ UNCHANGED <<is_init, live, dfree>>

\* alliedcam.c:267-353.
allied_open_camera_generic ==
    /\ pc = "idle"
    /\ ~(href # NULL /\ href \in live)
    /\ annCall' = {}
    /\ UNCHANGED <<tCapturing, tAcquiring, tAnnounced, tQueued, payloadSize>>
    /\ UNCHANGED <<completion, runtime, initThreads>>
    /\ \/ \* 274-278
          /\ NotInitialized(is_init)
          /\ Return("open", "NotInitialized")
          /\ tcalls' = {}
          /\ ffail' = NoFail
          /\ UNCHANGED <<prog, devOpen, rghost>>
       \/ \* 279-298: id == NULL and no camera id could be obtained
          /\ ~NotInitialized(is_init)
          /\ \E e \in TErrors \cup {"NotFound", "Resources"} :
               /\ Return("open", e)
               /\ tcalls' = {"VmbCamerasList"}
               /\ ffail' = IF e \in TErrors
                           THEN [fn |-> "VmbCamerasList", err |-> e] ELSE NoFail
          /\ UNCHANGED <<prog, devOpen, rghost>>
       \/ \* 300-310: malloc of the handle or of the framebuffer structure fails
          /\ ~NotInitialized(is_init)
          /\ \E idNull \in BOOLEAN : \E e \in OpenErrAfterMallocFail(idNull) :
               /\ Return("open", e)
               /\ tcalls' = IF idNull THEN {"VmbCamerasList"} ELSE {}
          /\ ffail' = NoFail
          /\ UNCHANGED <<prog, devOpen, rghost>>
       \/ \* 314-318: VmbCameraOpen fails, both structures are freed; it always
          \* fails on a device this process left open
          /\ ~NotInitialized(is_init)
          /\ Malloc(TRUE, live) # NULL
          /\ \E e \in TErrors :
               /\ Return("open", e)
               /\ ffail' = [fn |-> "VmbCameraOpen", err |-> e]
          /\ tcalls' = {"VmbCameraOpen"}
          /\ UNCHANGED <<prog, devOpen, rghost>>
       \/ \* 319-323: VmbAdjustPktSz fails (VmbCameraInfoQuery, line 249)
          /\ ~NotInitialized(is_init)
          /\ ~devOpen
          /\ Malloc(TRUE, live) # NULL
          /\ \E e \in TErrors, closeOk \in BOOLEAN :
               /\ OpenCleanupClose(e, closeOk, href, FALSE)
               /\ ffail' = [fn |-> "VmbCameraInfoQuery", err |-> e]
          /\ tcalls' = {"VmbCameraOpen", "VmbCameraInfoQuery", "VmbCameraClose"}
          /\ UNCHANGED rghost
       \/ \* 324-340: the handle is stored in *handle, then the buffers are set up
          /\ ~NotInitialized(is_init)
          /\ ~devOpen
          /\ LET ih == Malloc(TRUE, live)
                 fp == Malloc(TRUE, live \cup {ih})
             IN /\ ih # NULL /\ fp # NULL
                /\ \E bufsize \in {0} \cup BufSizes, ar1 \in AlignResults, okBuf \in BOOLEAN :
                     LET r1 == allied_alloc_framebuf(ZeroFb, live \cup {ih, fp},
                                                      bufsize, ar1, okBuf)
                     IN IF r1.err # "Success"
                        THEN \* 329-332
                             /\ \E closeOk \in BOOLEAN :
                                  OpenCleanupClose(r1.err, closeOk, DANGLING, FALSE)
                             /\ ffail' = IF ar1.err # "Success" /\ bufsize # 0
                                         THEN [fn |-> "VmbCameraInfoQueryByHandle",
                                               err |-> ar1.err]
                                         ELSE NoFail
                             /\ tcalls' = {"VmbCameraOpen", "VmbCameraInfoQuery",
                                           "VmbCameraClose"}
                                     \cup (IF bufsize # 0
                                           THEN {"VmbCameraInfoQueryByHandle"} ELSE {})
                             /\ aq' = r1.aq
                             /\ UNCHANGED <<rfreed, ralloc>>
                        ELSE \* 334: allied_realloc_framebuffer, lines 432-435 first
                             \E ar2 \in AlignOutcomes, payErr \in Results :
                               IF ar2.err # "Success" \/ payErr # "Success"
                               THEN /\ \E closeOk \in BOOLEAN :
                                         OpenCleanupClose(
                                            IF ar2.err # "Success" THEN ar2.err ELSE payErr,
                                            closeOk, DANGLING, TRUE)
                                    /\ ffail' = IF ar2.err # "Success"
                                                THEN [fn |-> "VmbCameraInfoQueryByHandle",
                                                      err |-> ar2.err]
                                                ELSE [fn |-> "VmbPayloadSizeGet",
                                                      err |-> payErr]
                                    /\ tcalls' = {"VmbCameraOpen", "VmbCameraInfoQuery",
                                                  "VmbCameraInfoQueryByHandle",
                                                  "VmbCameraClose"}
                                            \cup (IF ar2.err = "Success"
                                                  THEN {"VmbPayloadSizeGet"} ELSE {})
                                    /\ aq' = r1.aq
                                    /\ UNCHANGED <<rfreed, ralloc>>
                               ELSE \E ar3 \in AlignResults, okBuf2, okFrm \in BOOLEAN :
                                      LET r2 == ReallocBody(r1.fb, r1.live, ih, ar2.alignment,
                                                            payloadSize, ar3, okBuf2, okFrm)
                                      IN /\ rfreed' = r2.freed
                                         /\ ralloc' = r2.alloced
                                         /\ aq' = IF r2.aq # NoQuery THEN r2.aq ELSE r1.aq
                                         /\ IF r2.err # "Success"
                                            THEN /\ \E closeOk \in BOOLEAN :
                                                      OpenCleanupClose(r2.err, closeOk, DANGLING,
                                                          r2.live \ (live \cup {ih, fp}) # {})
                                                 /\ ffail' = IF r2.err \in TErrors
                                                             THEN [fn |-> "VmbCameraInfoQueryByHandle",
                                                                   err |-> r2.err]
                                                             ELSE NoFail
                                                 /\ tcalls' = {"VmbCameraOpen", "VmbCameraInfoQuery",
                                                               "VmbCameraInfoQueryByHandle",
                                                               "VmbPayloadSizeGet", "VmbCameraClose"}
                                            ELSE /\ Return("open", "Success")
                                                 /\ href' = ih
                                                 /\ live' = r2.live
                                                 /\ hnd' = [acquiring |-> FALSE,
                                                            streaming |-> FALSE,
                                                            framebuf |-> fp]
                                                 /\ fb' = r2.fb
                                                 /\ devOpen' = TRUE
                                                 /\ ffail' = NoFail
                                                 /\ tcalls' = {"VmbCameraOpen", "VmbCameraInfoQuery",
                                                               "VmbCameraInfoQueryByHandle",
                                                               "VmbPayloadSizeGet"}
                                                 /\ UNCHANGED <<is_init, leaked, dfree>>

\* ------------------------------------------------------ allied_stop_capture
\* Faulty variant of StopIsNoop: the early return of line 576 is missing.
StopIsNoop_NoEarlyReturn(h) == FALSE

\* alliedcam.c:576: nothing to stop.
StopIsNoop(h) == ~h.acquiring /\ ~h.streaming

\* Faulty variant of StartResult: the result of the unwinding stop is returned.
StartResult_FromStop(err, stopErr) == stopErr

\* alliedcam.c:564-565: what allied_start_capture returns after err_cleanup,
\* where err is its own error and stopErr the result of the unwinding stop.
StartResult(err, stopErr) == err

\* Faulty variant of CloseContinues: the close goes on after a failed stop.
CloseContinues_BestEffort(stopErr) == TRUE

\* alliedcam.c:645: ALLIEDEXIT leaves allied_close_camera unless the stop
\* succeeded.
CloseContinues(stopErr) == stopErr = "Success"

\* allied_stop_capture returns e to the function that called it: the API
\* call itself, allied_start_capture (564, result dropped),
\* allied_close_camera (645) or allied_realloc_framebuffer (435).
StopReturns(op, e) ==
    CASE op = "stop" -> Return("stop", e)
      [] op = "start" -> Return("start", StartResult(lerr, e))
      [] op = "close" ->
            IF ~CloseContinues(e) THEN Return("close", e)
            ELSE /\ pc' = "close_body"
                 /\ call' = CallRec(op, "Pending", CurArg(op))
                 /\ UNCHANGED locals
      [] OTHER ->
            IF e # "Success" THEN Return(op, e)
            ELSE /\ pc' = "realloc_body"
                 /\ call' = CallRec(op, "Pending", CurArg(op))
                 /\ UNCHANGED locals

\* alliedcam.c:570-579: entry of allied_stop_capture, called on behalf of op.
StopEnter(op) ==
    IF NotInitialized(is_init) THEN StopReturns(op, "NotInitialized")
    ELSE IF StopIsNoop(hnd) THEN StopReturns(op, "Success")
    ELSE /\ pc' = "stop_acq"
         /\ call' = CallRec(op, "Pending", CurArg(op))
         /\ UNCHANGED locals

\* alliedcam.c:568-579: the API call.
allied_stop_capture ==
    /\ pc = "idle"
    /\ MayCall
    /\ StopEnter("stop")
    /\ tcalls' = {}
    /\ ffail' = NoFail
    /\ annCall' = {}
    /\ UNCHANGED <<prog, transport>>
    /\ UNCHANGED <<completion, runtime, initThreads, rghost>>

\* Faulty variant of AfterAcquisitionStop: line 583 is missing.
AfterAcquisitionStop_FlagKept(h) == h

\* alliedcam.c:583, 588: the flags after each step of the stop succeeded.
AfterAcquisitionStop(h) == [h EXCEPT !.acquiring = FALSE]
AfterCaptureEnd(h) == [h EXCEPT !.streaming = FALSE]

\* alliedcam.c:580-584.
StopAcquisitionStop ==
    /\ pc = "stop_acq"
    /\ IF hnd.acquiring
       THEN \E r \in Results :
              /\ tcalls' = tcalls \cup {"AcquisitionStop"}
              /\ IF r = "Success"
                 THEN /\ hnd' = AfterAcquisitionStop(hnd)
                      /\ tAcquiring' = FALSE
                      /\ pc' = "stop_end"
                      /\ UNCHANGED <<call, locals, ffail>>
                 ELSE /\ StopReturns(call.op, r)
                      /\ ffail' = Fail("AcquisitionStop", r)
                      /\ UNCHANGED <<hnd, tAcquiring>>
       ELSE /\ pc' = "stop_end"
            /\ UNCHANGED <<hnd, tAcquiring, call, locals, tcalls, ffail>>
    /\ UNCHANGED <<is_init, href, live, leaked, dfree, fb, devOpen, tCapturing,
                   tAnnounced, tQueued, payloadSize, annCall>>
    /\ UNCHANGED <<completion, runtime, initThreads, rghost>>

\* Faulty variant of AfterFailedCaptureEnd: the handle is demoted to
\* Announced although the capture engine did not stop.
AfterFailedCaptureEnd_Demoted(h) == [h EXCEPT !.streaming = FALSE]

\* alliedcam.c:587: ALLIEDEXIT returns before line 588 is reached, the flags
\* are as VmbCaptureEnd found them.
AfterFailedCaptureEnd(h) == h

\* Faulty variant of CaptureEndExits: the stop goes on whatever
\* VmbCaptureEnd returned.
CaptureEndExits_Never(r) == FALSE

\* alliedcam.c:587 (macro ALLIEDEXIT, 113-121): allied_stop_capture returns
\* at once when VmbCaptureEnd did not succeed.
CaptureEndExits(r) == r # "Success"

\* alliedcam.c:585-589.
StopCaptureEnd ==
    /\ pc = "stop_end"
    /\ IF hnd.streaming
       THEN \E r \in Results :
              /\ tcalls' = tcalls \cup {"VmbCaptureEnd"}
              /\ tCapturing' = IF r = "Success" THEN FALSE ELSE tCapturing
              /\ IF ~CaptureEndExits(r)
                 THEN /\ hnd' = AfterCaptureEnd(hnd)
                      /\ pc' = "stop_flush"
                      /\ UNCHANGED <<call, locals, ffail>>
                 ELSE /\ StopReturns(call.op, r)
                      /\ ffail' = Fail("VmbCaptureEnd", r)
                      /\ hnd' = AfterFailedCaptureEnd(hnd)
       ELSE /\ pc' = "stop_flush"
            /\ UNCHANGED <<hnd, tCapturing, call, locals, tcalls, ffail>>
    /\ UNCHANGED <<is_init, href, live, leaked, dfree, fb, devOpen, tAcquiring,
                   tAnnounced, tQueued, payloadSize, annCall>>
    /\ UNCHANGED <<completion, runtime, initThreads, rghost>>

\* alliedcam.c:590: the result of VmbCaptureQueueFlush is not looked at.
StopQueueFlush ==
    /\ pc = "stop_flush"
    /\ \E ok \in BOOLEAN : tQueued' = IF ok THEN {} ELSE tQueued
    /\ tcalls' = tcalls \cup {"VmbCaptureQueueFlush"}
    /\ pc' = "stop_revoke"
    /\ UNCHANGED <<prog, devOpen, tCapturing, tAcquiring, tAnnounced, payloadSize,
                   locals, call, ffail, annCall>>
    /\ UNCHANGED <<completion, runtime, initThreads, rghost>>

\* Faulty variant of RevokeLoopContinues: the revoke is tried once only.
RevokeLoopContinues_NoRetry(announced, revoked) == FALSE

\* alliedcam.c:591: the condition of the while loop.
RevokeLoopContinues(announced, revoked) == announced /\ ~revoked

\* alliedcam.c:591-595: one evaluation of the loop condition, which calls
\* VmbFrameRevokeAll only when announced is true; the loop is left,
\* announced cleared and success returned when the condition is false.
StopRevokeAll ==
    /\ pc = "stop_revoke"
    /\ \E ok \in BOOLEAN :
         LET called == fb.announced
             revoked == called /\ ok
         IN /\ tcalls' = IF called THEN tcalls \cup {"VmbFrameRevokeAll"} ELSE tcalls
            /\ tAnnounced' = IF revoked THEN {} ELSE tAnnounced
            /\ tQueued' = IF revoked THEN {} ELSE tQueued
            /\ IF RevokeLoopContinues(fb.announced, revoked)
               THEN UNCHANGED <<fb, pc, call, locals>>
               ELSE /\ fb' = [fb EXCEPT !.announced = FALSE]
                    /\ StopReturns(call.op, "Success")
    /\ UNCHANGED <<is_init, href, live, leaked, dfree, hnd, devOpen, tCapturing,
                   tAcquiring, payloadSize, ffail, annCall>>
    /\ UNCHANGED <<completion, runtime, initThreads, rghost>>

\* ----------------------------------------------------- allied_start_capture
\* alliedcam.c:534, 557: the flags after each step of the start succeeded.
AfterCaptureStart(h) == [h EXCEPT !.streaming = TRUE]
AfterAcquisitionStart(h) == [h EXCEPT !.acquiring = TRUE]

\* alliedcam.c:502-516.
allied_start_capture ==
    /\ pc = "idle"
    /\ MayCall
    /\ IF NotInitialized(is_init) THEN Return("start", "NotInitialized")
       ELSE IF hnd.framebuf = NULL THEN Return("start", "Resources")
       ELSE \E callback \in Callbacks, user_data \in UserData :
              /\ pc' = "start_announce"
              /\ call' = CallRec("start", "Pending", <<callback, user_data>>)
              /\ i' = 0
              /\ UNCHANGED <<lerr, lalign, lpayload>>
    /\ tcalls' = {}
    /\ ffail' = NoFail
    /\ annCall' = {}
    /\ UNCHANGED <<prog, transport>>
    /\ UNCHANGED <<completion, runtime, initThreads, rghost>>

\* alliedcam.c:518-526: one iteration of the announce loop.  With frames ==
\* NULL the transport is handed a null frame pointer and rejects it.
StartFrameAnnounce ==
    /\ pc = "start_announce"
    /\ i < fb.num_frames
    /\ tcalls' = tcalls \cup {"VmbFrameAnnounce"}
    /\ \E r \in Results \cup {"BadParameter"} :
         /\ fb.frames = NULL => r \notin {"Success"}
         /\ fb.frames # NULL => r # "BadParameter"
         /\ IF r = "Success"
            THEN /\ tAnnounced' = tAnnounced \cup {CurDesc(i)}
                 /\ annCall' = annCall \cup {CurDesc(i)}
                 /\ fb' = [fb EXCEPT !.announced = TRUE]
                 /\ i' = i + 1
                 /\ UNCHANGED <<pc, lerr, ffail>>
            ELSE /\ lerr' = r
                 /\ pc' = "start_cleanup"
                 /\ ffail' = Fail("VmbFrameAnnounce", r)
                 /\ UNCHANGED <<tAnnounced, annCall, fb, i>>
    /\ UNCHANGED <<is_init, href, live, leaked, dfree, hnd, devOpen, tCapturing,
                   tAcquiring, tQueued, payloadSize, lalign, lpayload, call>>
    /\ UNCHANGED <<completion, runtime, initThreads, rghost>>

\* Faulty variant of StoreCallback: the loop of lines 536-540 is missing.
StoreCallback_Missing(context, callback, user_data) == context

\* alliedcam.c:536-540: callback and user_data stored in every descriptor.
StoreCallback(context, callback, user_data) ==
    [k \in DOMAIN context |->
        [context[k] EXCEPT !.cb = callback, !.data = user_data]]

\* alliedcam.c:527-540: the capture engine is started, streaming set and the
\* callback and user data stored in every descriptor.
StartCaptureStart ==
    /\ pc = "start_announce"
    /\ i >= fb.num_frames
    /\ tcalls' = tcalls \cup {"VmbCaptureStart"}
    /\ \E r \in Results :
         IF r = "Success"
         THEN /\ tCapturing' = TRUE
              /\ hnd' = AfterCaptureStart(hnd)
              /\ fb' = [fb EXCEPT !.context = StoreCallback(fb.context, call.arg[1],
                                                            call.arg[2])]
              /\ pc' = "start_queue"
              /\ i' = 0
              /\ lerr' = "Success"
              /\ UNCHANGED ffail
         ELSE /\ lerr' = r
              /\ pc' = "start_cleanup"
              /\ ffail' = Fail("VmbCaptureStart", r)
              /\ UNCHANGED <<tCapturing, hnd, fb, i>>
    /\ UNCHANGED <<completion, runtime, initThreads, rghost>>
    /\ UNCHANGED <<is_init, href, live, leaked, dfree, devOpen, tAcquiring,
                   tAnnounced, tQueued, payloadSize, lalign, lpayload, call, annCall>>

\* alliedcam.c:542-550: one iteration of the queue loop.
StartFrameQueue ==
    /\ pc = "start_queue"
    /\ i < fb.num_frames
    /\ tcalls' = tcalls \cup {"VmbCaptureFrameQueue"}
    /\ \E r \in Results :
         IF r = "Success"
         THEN /\ tQueued' = tQueued \cup {CurDesc(i)}
              /\ i' = i + 1
              /\ UNCHANGED <<pc, lerr, ffail>>
         ELSE /\ lerr' = r
              /\ pc' = "start_cleanup"
              /\ ffail' = Fail("VmbCaptureFrameQueue", r)
              /\ UNCHANGED <<tQueued, i>>
    /\ UNCHANGED <<prog, devOpen, tCapturing, tAcquiring, tAnnounced, payloadSize,
                   lalign, lpayload, call, annCall>>
    /\ UNCHANGED <<completion, runtime, initThreads, rghost>>

\* alliedcam.c:552-561.
StartAcquisitionStart ==
    /\ pc = "start_queue"
    /\ i >= fb.num_frames
    /\ tcalls' = tcalls \cup {"AcquisitionStart"}
    /\ \E r \in Results :
         IF r = "Success"
         THEN /\ tAcquiring' = TRUE
              /\ hnd' = AfterAcquisitionStart(hnd)
              /\ Return("start", "Success")
              /\ UNCHANGED ffail
         ELSE /\ lerr' = r
              /\ pc' = "start_cleanup"
              /\ ffail' = Fail("AcquisitionStart", r)
              /\ UNCHANGED <<tAcquiring, hnd, call, i, lalign, lpayload>>
    /\ UNCHANGED <<is_init, href, live, leaked, dfree, fb, devOpen, tCapturing,
                   tAnnounced, tQueued, payloadSize, annCall>>
    /\ UNCHANGED <<completion, runtime, initThreads, rghost>>

\* alliedcam.c:563-565, label err_cleanup.
StartErrCleanup ==
    /\ pc = "start_cleanup"
    /\ StopEnter("start")
    /\ UNCHANGED <<prog, transport, ghost>>
    /\ UNCHANGED <<completion, runtime, initThreads, rghost>>

\* -------------------------------------------------------- close and reset
\* What a successful VmbCameraClose leaves of the device's capture state at
\* the transport: nothing.
TransportClosed ==
    /\ devOpen' = FALSE
    /\ tCapturing' = FALSE
    /\ tAcquiring' = FALSE
    /\ tAnnounced' = {}
    /\ tQueued' = {}
    /\ UNCHANGED payloadSize

\* alliedcam.c:637-645: up to the call of allied_stop_capture.
allied_close_camera ==
    /\ pc = "idle"
    /\ MayCall
    /\ IF NotInitialized(is_init) THEN Return("close", "NotInitialized")
       ELSE StopEnter("close")
    /\ tcalls' = {}
    /\ ffail' = NoFail
    /\ annCall' = {}
    /\ UNCHANGED <<prog, transport>>
    /\ UNCHANGED <<completion, runtime, initThreads, rghost>>

\* alliedcam.c:646-650: after allied_stop_capture returned success.  The
\* framebuffer structure itself is not passed to free().
CloseBody ==
    /\ pc = "close_body"
    /\ tcalls' = tcalls \cup {"VmbCameraClose"}
    /\ \E r \in Results :
         LET freed == FreedByFreeFramebuf(fb, FALSE)
         IN /\ fb' = allied_free_framebuf(fb, FALSE)
            /\ Return("close", r)
            /\ IF r = "Success"
               THEN /\ TransportClosed
                    /\ live' = ((live \ freed) \ {href}) \ {hnd.framebuf}
                    /\ leaked' = (leaked \/ hnd.framebuf \in live)
                    /\ dfree' = (dfree \/ ~(freed \subseteq live) \/ href \notin live)
                    /\ href' = NULL
                    /\ hnd' = ZeroHnd
                    /\ UNCHANGED ffail
               ELSE /\ live' = live \ freed
                    /\ dfree' = (dfree \/ ~(freed \subseteq live))
                    /\ ffail' = Fail("VmbCameraClose", r)
                    /\ tAnnounced' = AfterFree(tAnnounced, freed)
                    /\ tQueued' = AfterFree(tQueued, freed)
                    /\ UNCHANGED <<href, hnd, leaked, devOpen, tCapturing, tAcquiring,
                                   payloadSize>>
    /\ UNCHANGED <<is_init, annCall>>
    /\ UNCHANGED <<completion, runtime, initThreads, rghost>>

\* alliedcam.c:620-635.
allied_reset_camera ==
    /\ pc = "idle"
    /\ MayCall
    /\ annCall' = {}
    /\ IF NotInitialized(is_init)
       THEN /\ Return("reset", "NotInitialized")
            /\ tcalls' = {}
            /\ ffail' = NoFail
            /\ UNCHANGED <<prog, transport>>
       ELSE \E r \in Results, closeOk \in BOOLEAN :
              LET freed == FreedByFreeFramebuf(fb, FALSE)
              IN /\ tcalls' = {"DeviceReset", "VmbCameraClose"}
                 /\ ffail' = IF r # "Success" THEN [fn |-> "DeviceReset", err |-> r]
                             ELSE IF ~closeOk
                                  THEN [fn |-> "VmbCameraClose", err |-> "Timeout"]
                                  ELSE NoFail
                 /\ IF closeOk THEN TransportClosed
                    ELSE /\ tAnnounced' = AfterFree(tAnnounced, freed)
                         /\ tQueued' = AfterFree(tQueued, freed)
                         /\ UNCHANGED <<devOpen, tCapturing, tAcquiring, payloadSize>>
                 /\ fb' = allied_free_framebuf(fb, FALSE)
                 /\ live' = ((live \ freed) \ {href}) \ {hnd.framebuf}
                 /\ leaked' = (leaked \/ hnd.framebuf \in live)
                 /\ dfree' = (dfree \/ ~(freed \subseteq live) \/ href \notin live)
                 /\ href' = NULL
                 /\ hnd' = ZeroHnd
                 /\ Return("reset", r)
                 /\ UNCHANGED is_init
    /\ UNCHANGED <<completion, runtime, initThreads, rghost>>

\* ------------------------------------------------ payload-changing setters
\* Faulty variant of IsBusy: only the acquiring flag is looked at.
IsBusy_AcquiringOnly(h) == h.acquiring

\* alliedcam.c:731, 802: the setter refuses while capture is active.
IsBusy(h) == h.acquiring \/ h.streaming

\* alliedcam.c:432-433: allied_realloc_framebuffer up to its call of
\* allied_stop_capture, for the API call op made with arg.  ar: the alignment
\* query, payErr: the result of VmbPayloadSizeGet, which reads the transport's
\* payload size as the feature writes left it.
ReallocPrefix(op, arg, ar, payErr) ==
    IF ar.err # "Success"
    THEN /\ ReturnWith(op, ar.err, arg)
         /\ ffail' = [fn |-> "VmbCameraInfoQueryByHandle", err |-> ar.err]
         /\ tcalls' = {"FeatureSet", "VmbCameraInfoQueryByHandle"}
    ELSE IF payErr # "Success"
    THEN /\ ReturnWith(op, payErr, arg)
         /\ ffail' = [fn |-> "VmbPayloadSizeGet", err |-> payErr]
         /\ tcalls' = {"FeatureSet", "VmbCameraInfoQueryByHandle", "VmbPayloadSizeGet"}
    ELSE /\ pc' = "realloc_stop"
         /\ call' = CallRec(op, "Pending", arg)
         /\ lalign' = ar.alignment
         /\ lpayload' = payloadSize'
         /\ ffail' = NoFail
         /\ tcalls' = {"FeatureSet", "VmbCameraInfoQueryByHandle", "VmbPayloadSizeGet"}
         /\ UNCHANGED <<i, lerr>>

\* Two feature writes in a row (alliedcam.c:735-736, 806-807), then
\* allied_realloc_framebuffer.  A successful write of a size feature may
\* change the transport's payload size to any value.
TwoWritesThenRealloc(op, arg) ==
    \/ \E r1 \in TErrors :
         /\ ReturnWith(op, r1, arg)
         /\ ffail' = [fn |-> "FeatureSet", err |-> r1]
         /\ tcalls' = {"FeatureSet"}
         /\ UNCHANGED payloadSize
    \/ \E r2 \in TErrors, p1 \in Payloads :
         /\ ReturnWith(op, r2, arg)
         /\ ffail' = [fn |-> "FeatureSet", err |-> r2]
         /\ tcalls' = {"FeatureSet"}
         /\ payloadSize' = p1
    \/ \E p2 \in Payloads, ar \in AlignOutcomes, payErr \in Results :
         /\ payloadSize' = p2
         /\ ReallocPrefix(op, arg, ar, payErr)

\* The setter returns e before any transport call.
Refuse(op, e, arg) ==
    /\ ReturnWith(op, e, arg)
    /\ ffail' = NoFail
    /\ tcalls' = {}
    /\ UNCHANGED payloadSize

\* alliedcam.c:719-738.
allied_set_image_size ==
    /\ pc = "idle"
    /\ MayCall
    /\ \E width, height \in 0..1 :
         LET arg == <<width, height>>
         IN IF NotInitialized(is_init)
            THEN Refuse("set_image_size", "NotInitialized", arg)
            ELSE IF width = 0 \/ height = 0
            THEN Refuse("set_image_size", "BadParameter", arg)
            ELSE IF IsBusy(hnd) THEN Refuse("set_image_size", "Busy", arg)
            ELSE TwoWritesThenRealloc("set_image_size", arg)
    /\ annCall' = {}
    /\ UNCHANGED <<prog, devOpen, tCapturing, tAcquiring, tAnnounced, tQueued>>
    /\ UNCHANGED <<completion, runtime, initThreads, rghost>>

\* alliedcam.c:793-809.
allied_set_binning_factor ==
    /\ pc = "idle"
    /\ MayCall
    /\ IF NotInitialized(is_init)
       THEN Refuse("set_binning_factor", "NotInitialized", NoArg)
       ELSE IF IsBusy(hnd) THEN Refuse("set_binning_factor", "Busy", NoArg)
       ELSE TwoWritesThenRealloc("set_binning_factor", NoArg)
    /\ annCall' = {}
    /\ UNCHANGED <<prog, devOpen, tCapturing, tAcquiring, tAnnounced, tQueued>>
    /\ UNCHANGED <<completion, runtime, initThreads, rghost>>

\* alliedcam.c:860-871: no check of streaming or acquiring.
allied_set_image_format ==
    /\ pc = "idle"
    /\ MayCall
    /\ IF NotInitialized(is_init)
       THEN Refuse("set_image_format", "NotInitialized", NoArg)
       ELSE \/ \E r \in TErrors :
                 /\ Return("set_image_format", r)
                 /\ ffail' = [fn |-> "FeatureSet", err |-> r]
                 /\ tcalls' = {"FeatureSet"}
                 /\ UNCHANGED payloadSize
            \/ \E p \in Payloads, ar \in AlignOutcomes, payErr \in Results :
                 /\ payloadSize' = p
                 /\ ReallocPrefix("set_image_format", NoArg, ar, payErr)
    /\ annCall' = {}
    /\ UNCHANGED <<prog, devOpen, tCapturing, tAcquiring, tAnnounced, tQueued>>
    /\ UNCHANGED <<completion, runtime, initThreads, rghost>>

\* alliedcam.c:435: allied_realloc_framebuffer calls allied_stop_capture.
ReallocStop ==
    /\ pc = "realloc_stop"
    /\ StopEnter(call.op)
    /\ UNCHANGED <<prog, transport, ghost>>
    /\ UNCHANGED <<completion, runtime, initThreads, rghost>>

\* The outcomes S of a call that is made only when called holds: one
\* outcome, never looked at, when it is not made.
IfCalled(called, S) == IF called THEN S ELSE {CHOOSE x \in S : TRUE}

\* alliedcam.c:436-484: the rest of allied_realloc_framebuffer; the setter
\* returns its result (737, 808, 870).  The alignment query and aligned_alloc
\* of allied_alloc_framebuf happen only behind need_realloc (442-452).
ReallocRest ==
    /\ pc = "realloc_body"
    /\ \E ar \in IfCalled(NeedRealloc(fb, lalign, lpayload), AlignResults),
          okBuf \in IfCalled(NeedRealloc(fb, lalign, lpayload), BOOLEAN),
          okFrm \in BOOLEAN :
         LET r == ReallocBody(fb, live, href, lalign, lpayload, ar, okBuf, okFrm)
         IN /\ fb' = r.fb
            /\ live' = r.live
            /\ dfree' = (dfree \/ ~(r.freed \subseteq live))
            /\ tAnnounced' = AfterFree(tAnnounced, r.freed)
            /\ tQueued' = AfterFree(tQueued, r.freed)
            /\ Return(call.op, r.err)
            /\ ffail' = IF r.err \in TErrors
                        THEN Fail("VmbCameraInfoQueryByHandle", r.err) ELSE ffail
            /\ rfreed' = r.freed
            /\ ralloc' = r.alloced
            /\ aq' = r.aq
    /\ UNCHANGED <<is_init, href, leaked, hnd, devOpen, tCapturing, tAcquiring,
                   payloadSize, tcalls, annCall>>
    /\ UNCHANGED <<completion, runtime, initThreads>>

\* ---------------------------------------------------- FrameCaptureCallback
\* The transport completes a queued frame of the handle's descriptor array
\* and calls FrameCaptureCallback on its own thread; alliedcam.c:489-491
\* read the three context slots.  entry remembers what the slots held.
TransportDelivers ==
    /\ relay.pc = "idle"
    /\ tCapturing
    /\ rstat.delivered < MaxCompletions
    /\ \E d \in tQueued :
         /\ d.arr = fb.frames
         /\ d.arr \in live
         /\ d.idx \in DOMAIN fb.context
         /\ tQueued' = tQueued \ {d}
         /\ relay' = [pc |-> "entered", frame |-> d.idx,
                      entry |-> fb.context[d.idx], touched |-> {},
                      ihandle |-> fb.context[d.idx].h,
                      user_data |-> fb.context[d.idx].data,
                      callback_handle |-> fb.context[d.idx].cb]
    /\ rstat' = [rstat EXCEPT !.delivered = @ + 1]
    /\ UNCHANGED <<prog, devOpen, tCapturing, tAcquiring, tAnnounced, payloadSize,
                   pc, locals, call, ghost, runtime, initThreads, rghost>>

\* What the user callback leaves in the context slots of its frame when it
\* overwrites the slots named in touched.
Scribble(slots, touched) ==
    [n \in DOMAIN slots |-> IF n \in touched THEN JUNK ELSE slots[n]]

\* alliedcam.c:493: the user callback runs, with ihandle, the frame and
\* user_data; it may write to any of the frame's context slots.
RelayCallsUser ==
    /\ relay.pc = "entered"
    /\ relay.frame \in DOMAIN fb.context
    /\ \E touched \in SUBSET {"h", "data", "cb"} :
         /\ fb' = [fb EXCEPT !.context[relay.frame] = Scribble(@, touched)]
         /\ relay' = [relay EXCEPT !.pc = "called", !.touched = touched]
    /\ rstat' = [rstat EXCEPT !.calls = @ + 1]
    /\ UNCHANGED <<is_init, href, live, leaked, dfree, hnd, transport, pc, locals,
                   call, ghost, runtime, initThreads, rghost>>

\* Faulty variant of RestoredSlots: lines 495-497 are missing.
RestoredSlots_NotRestored(slots, r) == slots

\* alliedcam.c:495-497: the three slots are written from the relay's locals.
RestoredSlots(slots, r) == Slots(r.ihandle, r.user_data, r.callback_handle)

RelayRestores ==
    /\ relay.pc = "called"
    /\ relay.frame \in DOMAIN fb.context
    /\ fb' = [fb EXCEPT !.context[relay.frame] = RestoredSlots(@, relay)]
    /\ relay' = [relay EXCEPT !.pc = "restored"]
    /\ UNCHANGED <<is_init, href, live, leaked, dfree, hnd, transport, pc, locals,
                   call, ghost, rstat, runtime, initThreads, rghost>>

\* alliedcam.c:499: the frame is queued again; the result is not looked at.
\* The transport takes only a frame that is announced.
RelayRequeues ==
    /\ relay.pc = "restored"
    /\ \E ok \in BOOLEAN :
         tQueued' = IF ok /\ CurDesc(relay.frame) \in tAnnounced
                    THEN tQueued \cup {CurDesc(relay.frame)} ELSE tQueued
    /\ relay' = RelayIdle
    /\ rstat' = [rstat EXCEPT !.requeues = @ + 1]
    /\ UNCHANGED <<prog, devOpen, tCapturing, tAcquiring, tAnnounced, payloadSize,
                   pc, locals, call, ghost, runtime, initThreads, rghost>>

\* ------------------------------------------------------ camera enumeration
\* alliedcam.c:199-243.  The array of camera descriptions is allocated for
\* the caller, who owns it after a success; every other path frees it again
\* (240) or returns before it is allocated.
allied_list_cameras ==
    /\ pc = "idle"
    /\ IF NotInitialized(is_init)
       THEN /\ Return("list_cameras", "NotInitialized")
            /\ tcalls' = {}
            /\ ffail' = NoFail
       ELSE \E e \in Results \cup {"NotFound", "Resources"} :
              /\ Return("list_cameras", e)
              /\ tcalls' = {"VmbCamerasList"}
              /\ ffail' = IF e \in TErrors
                          THEN [fn |-> "VmbCamerasList", err |-> e] ELSE NoFail
    /\ annCall' = {}
    /\ UNCHANGED <<prog, transport>>
    /\ UNCHANGED <<completion, runtime, initThreads, rghost>>

\* ------------------------------------------------ allied_get_binning_factor
\* Faulty variant of BinningFactor: the comparison of line 824 is missing.
BinningFactor_Unchecked(hx, hy) == [err |-> "Success", factor |-> hx]

\* alliedcam.c:824-829: the result and what is left in *factor, which line
\* 820 set to 0.
BinningFactor(hx, hy) ==
    IF hx # hy THEN [err |-> "InternalFault", factor |-> 0]
    ELSE [err |-> "Success", factor |-> hx]

\* alliedcam.c:811-830.  The call record keeps what the transport reported
\* for BinningHorizontal and BinningVertical (0: not read, as initialized at
\* 821) and what the call left in *factor.
allied_get_binning_factor ==
    /\ pc = "idle"
    /\ MayCall
    /\ IF NotInitialized(is_init)
       THEN /\ ReturnWith("get_binning_factor", "NotInitialized", NoArg)
            /\ tcalls' = {}
            /\ ffail' = NoFail
       ELSE /\ tcalls' = {"FeatureGet"}
            /\ \/ \E e \in TErrors :
                    /\ ReturnWith("get_binning_factor", e, <<0, 0, 0>>)
                    /\ ffail' = [fn |-> "FeatureGet", err |-> e]
               \/ \E hx \in BinValues, e \in TErrors :
                    /\ ReturnWith("get_binning_factor", e, <<hx, 0, 0>>)
                    /\ ffail' = [fn |-> "FeatureGet", err |-> e]
               \/ \E hx, hy \in BinValues :
                    LET r == BinningFactor(hx, hy)
                    IN /\ ReturnWith("get_binning_factor", r.err, <<hx, hy, r.factor>>)
                       /\ ffail' = NoFail
    /\ annCall' = {}
    /\ UNCHANGED <<prog, transport>>
    /\ UNCHANGED <<completion, runtime, initThreads, rghost>>

\* ------------------------------------- allied_init_api called concurrently
\* Thread t calls allied_init_api and reads the flag (alliedcam.c:186).
InitLoad(t) ==
    /\ ipc[t] = "idle"
    /\ IF StartupNeeded(is_init)
       THEN /\ ipc' = [ipc EXCEPT ![t] = "startup"]
            /\ UNCHANGED ierr
       ELSE /\ ipc' = [ipc EXCEPT ![t] = "ret"]
            /\ ierr' = [ierr EXCEPT ![t] = "Success"]
    /\ UNCHANGED <<prog, transport, pc, locals, call, ghost, completion, runtime,
                   rghost>>

\* alliedcam.c:188-192: VmbStartup, and the return when it failed.
InitStartup(t) ==
    /\ ipc[t] = "startup"
    /\ \E r \in Results :
         /\ ierr' = [ierr EXCEPT ![t] = r]
         /\ ipc' = [ipc EXCEPT ![t] = IF r = "Success" THEN "atexit" ELSE "ret"]
         /\ startups' = IF r = "Success" THEN startups + 1 ELSE startups
    /\ UNCHANGED <<prog, transport, pc, locals, call, ghost, completion, hooks,
                   rghost>>

\* alliedcam.c:193.
InitAtexit(t) ==
    /\ ipc[t] = "atexit"
    /\ hooks' = hooks + 1
    /\ ipc' = [ipc EXCEPT ![t] = "store"]
    /\ UNCHANGED <<prog, transport, pc, locals, call, ghost, completion, startups,
                   ierr, rghost>>

\* alliedcam.c:194-196.
InitStore(t) ==
    /\ ipc[t] = "store"
    /\ is_init' = TRUE
    /\ ipc' = [ipc EXCEPT ![t] = "ret"]
    /\ UNCHANGED <<href, live, leaked, dfree, hnd, fb, transport, pc, locals, call,
                   ghost, completion, runtime, ierr, rghost>>

\* Thread t has looked at the result and may call again.
InitResumes(t) ==
    /\ ipc[t] = "ret"
    /\ ipc' = [ipc EXCEPT ![t] = "idle"]
    /\ ierr' = [ierr EXCEPT ![t] = "Success"]
    /\ UNCHANGED <<prog, transport, pc, locals, call, ghost, completion, runtime,
                   rghost>>


\* ----------------------------------------------- enumeration feature lists
\* malloc() of one of the two arrays: NULL on failure.
MallocEnum(ok, lv) ==
    IF ok /\ EnumPtrs \ lv # {} THEN Min(EnumPtrs \ lv) ELSE NULL

\* free(p) on the heap h: the block is released, and the call is recorded
\* when p is not an allocated block at that moment.
FreeBlock(h, p) == [live |-> h.live \ {p}, dfree |-> h.dfree \/ p \notin h.live]

\* alliedcam.c:1114-1176 past the test of is_init.  err1, list_len: the first
\* VmbFeatureEnumRangeQuery; ok1, ok2: the two mallocs; err2: the second
\* query; availGiven: available != NULL.  The result holds what the function
\* returns, what *list, *available and *count hold afterwards (NULL and 0
\* where the function did not write them) and the heap.  The results of
\* VmbFeatureEnumIsAvailable (1149-1152) are not looked at.
EnumList(lv, df, err1, list_len, ok1, ok2, err2, availGiven) ==
    IF err1 = "Success" /\ list_len > 0
    THEN LET formats == MallocEnum(ok1, lv)
             avail == MallocEnum(ok2, lv \cup {formats})
             h0 == [live |-> lv \cup {formats, avail}, dfree |-> df]
             \* 1154-1163: the second query failed
             h1 == IF err2 = "Success" THEN h0
                   ELSE FreeBlock(FreeBlock(h0, formats), avail)
             \* 1164-1172
             h2 == IF availGiven THEN h1 ELSE FreeBlock(h1, avail)
         IN IF formats = NULL
            THEN [err |-> "Resources", list |-> NULL, available |-> NULL,
                  count |-> 0, live |-> lv, dfree |-> df]
            ELSE IF avail = NULL
            THEN [err |-> "Resources", list |-> NULL, available |-> NULL,
                  count |-> 0, live |-> lv, dfree |-> df]
            ELSE [err |-> "Success", list |-> formats,
                  available |-> IF availGiven THEN avail ELSE NULL,
                  count |-> list_len, live |-> h2.live, dfree |-> h2.dfree]
    ELSE [err |-> "Success", list |-> NULL, available |-> NULL,
          count |-> IF err1 = "Success" THEN list_len ELSE 0,
          live |-> lv, dfree |-> df]

\* alliedcam.c:1114-1176.  call.arg: what the caller's variables list, avail
\* and count hold when the call returns, and whether &avail was passed.
allied_get_feature_enum_list ==
    /\ pc = "idle"
    /\ MayCall
    /\ \E availGiven \in BOOLEAN :
         IF NotInitialized(is_init)
         THEN /\ ReturnWith("get_feature_enum_list", "NotInitialized",
                            <<NULL, NULL, 0, availGiven>>)
              /\ tcalls' = {}
              /\ ffail' = NoFail
              /\ UNCHANGED <<live, dfree>>
         ELSE \E err1, err2 \in Results, list_len \in ListLens, ok1, ok2 \in BOOLEAN :
                LET r == EnumList(live, dfree, err1, list_len, ok1, ok2, err2,
                                  availGiven)
                IN /\ ReturnWith("get_feature_enum_list", r.err,
                                 <<r.list, r.available, r.count, availGiven>>)
                   /\ live' = r.live
                   /\ dfree' = r.dfree
                   /\ tcalls' = {"VmbFeatureEnumRangeQuery"}
                   /\ ffail' = IF err1 # "Success"
                               THEN [fn |-> "VmbFeatureEnumRangeQuery", err |-> err1]
                               ELSE IF r.list # NULL /\ err2 # "Success"
                               THEN [fn |-> "VmbFeatureEnumRangeQuery", err |-> err2]
                               ELSE NoFail
    /\ annCall' = {}
    /\ UNCHANGED <<is_init, href, leaked, hnd, fb, transport>>
    /\ UNCHANGED <<completion, runtime, initThreads, rghost>>

\* examples/main.c:387-388: the caller releases what the call handed over,
\* allied_free_list(&fmt) (alliedcam.c:1178-1189) and free(avail).
CallerFreesList ==
    /\ pc = "ret"
    /\ call.op = "get_feature_enum_list"
    /\ call.arg[1] # NULL \/ call.arg[2] # NULL
    /\ LET h0 == [live |-> live, dfree |-> dfree]
           h1 == IF call.arg[1] # NULL THEN FreeBlock(h0, call.arg[1]) ELSE h0
           h2 == IF call.arg[2] # NULL THEN FreeBlock(h1, call.arg[2]) ELSE h1
       IN /\ live' = h2.live
          /\ dfree' = h2.dfree
    /\ call' = [call EXCEPT !.arg = <<NULL, NULL, call.arg[3], call.arg[4]>>]
    /\ UNCHANGED <<is_init, href, leaked, hnd, fb, transport, pc, locals, ghost>>
    /\ UNCHANGED <<completion, runtime, initThreads, rghost>>

\* The caller has looked at the result and is ready for its next call.
CallerResumes ==
    /\ pc = "ret"
    /\ pc' = "idle"
    /\ call' = CallRec("none", "Success", NoArg)
    /\ tcalls' = {}
    /\ ffail' = NoFail
    /\ annCall' = {}
    /\ rfreed' = {}
    /\ ralloc' = {}
    /\ aq' = NoQuery
    /\ UNCHANGED <<prog, transport, locals>>
    /\ UNCHANGED <<completion, runtime, initThreads>>

\* ------------------------------------------------------------------- spec
Next ==
    \/ CallerResumes
    \/ allied_init_api
    \/ allied_open_camera_generic
    \/ allied_start_capture
    \/ StartFrameAnnounce
    \/ StartCaptureStart
    \/ StartFrameQueue
    \/ StartAcquisitionStart
    \/ StartErrCleanup
    \/ allied_stop_capture
    \/ StopAcquisitionStop
    \/ StopCaptureEnd
    \/ StopQueueFlush
    \/ StopRevokeAll
    \/ allied_close_camera
    \/ CloseBody
    \/ allied_reset_camera
    \/ allied_set_image_size
    \/ allied_set_binning_factor
    \/ allied_set_image_format
    \/ ReallocStop
    \/ ReallocRest
    \/ allied_list_cameras

Spec == Init /\ [][Next]_vars

\* A caller that opens the camera and reads its binning factor.
QueryNext ==
    \/ CallerResumes
    \/ allied_init_api
    \/ allied_open_camera_generic
    \/ allied_get_binning_factor

QuerySpec == Init /\ [][QueryNext]_vars

\* A caller that opens the camera and reads the value lists of its
\* enumeration features.
EnumListNext ==
    \/ CallerResumes
    \/ allied_init_api
    \/ allied_open_camera_generic
    \/ allied_get_feature_enum_list
    \/ CallerFreesList

EnumListSpec == Init /\ [][EnumListNext]_vars

\* The capture loop: the caller opens, starts and stops the capture while
\* the transport's completion thread runs FrameCaptureCallback.
RelayNext ==
    \/ CallerResumes
    \/ allied_init_api
    \/ allied_open_camera_generic
    \/ allied_start_capture
    \/ StartFrameAnnounce
    \/ StartCaptureStart
    \/ StartFrameQueue
    \/ StartAcquisitionStart
    \/ StartErrCleanup
    \/ allied_stop_capture
    \/ StopAcquisitionStop
    \/ StopCaptureEnd
    \/ StopQueueFlush
    \/ StopRevokeAll
    \/ TransportDelivers
    \/ RelayCallsUser
    \/ RelayRestores
    \/ RelayRequeues

RelaySpec == Init /\ [][RelayNext]_vars

\* Several threads call allied_init_api, each any number of times.
InitRaceNext ==
    \E t \in Threads :
        \/ InitLoad(t)
        \/ InitStartup(t)
        \/ InitAtexit(t)
        \/ InitStore(t)
        \/ InitResumes(t)

InitRaceSpec == Init /\ [][InitRaceNext]_vars

\* The transport answers the calls of the stop sequence, and a revoke-all
\* that can succeed eventually does.
RevokeAllSucceeds == StopRevokeAll /\ pc' # "stop_revoke"
LiveSpec == Spec /\ WF_vars(StopQueueFlush) /\ WF_vars(RevokeAllSucceeds)

TypeOK ==
    /\ is_init \in BOOLEAN
    /\ href \in {NULL, DANGLING} \cup Ptrs
    /\ leaked \in BOOLEAN
    /\ live \subseteq Ptrs \cup EnumPtrs
    /\ pc \in {"idle", "ret", "start_announce", "start_queue", "start_cleanup", "stop_acq",
               "stop_end", "stop_flush", "stop_revoke", "close_body", "realloc_stop",
               "realloc_body"}
    /\ (pc \in {"idle", "ret"}) = (call.err # "Pending")
    /\ fb.num_frames \in 0..ALLIED_MAX_FRAMES
    /\ startups \in 0..MaxThreads
    /\ hooks \in 0..MaxThreads
    /\ \A t \in Threads : ipc[t] \in {"idle", "startup", "atexit", "store", "ret"}
    /\ rfreed \subseteq Ptrs
    /\ ralloc \subseteq Ptrs

\* ----------------------------------------------------------------- claims
\* What the handle says about capture being active.
Capturing == hnd.streaming \/ hnd.acquiring
\* The call that has just returned.
Returned(op) == pc = "ret" /\ call.op = op
\* The step in which the caller makes the API call op.
Calls(op) == pc = "idle" /\ call'.op = op

\* C1: whenever the acquiring flag is true the streaming flag is true, so
\* the flags only take the values Idle, Streaming and Acquiring.
C1_AcquiringImpliesStreaming == hnd.acquiring => hnd.streaming
C1_Witness == hnd.acquiring /\ hnd.streaming /\ tAcquiring

\* C2: when allied_start_capture returns because a frame announce or the
\* capture-engine start failed, no descriptor announced during the call is
\* still announced at the transport, and announced, streaming and acquiring
\* are all false.
C2_FailedStartRollsBack ==
    (Returned("start") /\ ffail.fn \in {"VmbFrameAnnounce", "VmbCaptureStart"})
        => /\ annCall \cap tAnnounced = {}
           /\ ~fb.announced
           /\ ~hnd.streaming
           /\ ~hnd.acquiring

\* C3: whenever streaming or acquiring is true, or the transport still
\* holds announced descriptors of the handle, the frame buffer memory and
\* the descriptor array are allocated: neither is freed or reallocated
\* before the descriptors are revoked.
C3_HeldMemoryIsLive ==
    /\ Capturing => (fb.buffer \in live /\ fb.frames \in live)
    /\ \A d \in tAnnounced : d.arr \in live /\ d.buf \in live

\* C4: allied_start_capture announces a descriptor only when the transport
\* holds none announced before this call; descriptors of an earlier capture
\* are revoked first.
C4_AnnounceOnlyWhenRevoked ==
    [][(pc = "start_announce" /\ tAnnounced' # tAnnounced)
           => tAnnounced \subseteq annCall]_vars

\* C5: allied_set_image_format called while streaming or acquiring returns
\* VmbErrorBusy, writes nothing to the transport, and stops no capture and
\* frees or reallocates nothing.
C5_ImageFormatRefusedWhileCapturing ==
    [][(Calls("set_image_format") /\ Capturing)
           => /\ pc' = "ret"
              /\ call'.err = "Busy"
              /\ tcalls' = {}
              /\ UNCHANGED <<prog, transport>>]_vars

\* C6, as stated: allied_set_image_size and allied_set_binning_factor called
\* while streaming or acquiring return VmbErrorBusy without a transport
\* write and without changing the handle, the buffers or the capture.
C6_SizeAndBinningBusy ==
    [][(Calls("set_image_size") \/ Calls("set_binning_factor")) /\ Capturing
           => /\ pc' = "ret"
              /\ call'.err = "Busy"
              /\ tcalls' = {}
              /\ UNCHANGED <<prog, transport>>]_vars

\* C6, amended: allied_set_image_size and allied_set_binning_factor called
\* while streaming or acquiring return without a transport write and
\* without changing the handle, the buffers or the capture; the result is
\* VmbErrorBadParameter when allied_set_image_size is given a width or a
\* height of zero, and VmbErrorBusy in every other case.
C6_SizeAndBinningRefused ==
    [][(Calls("set_image_size") \/ Calls("set_binning_factor")) /\ Capturing
           => /\ pc' = "ret"
              /\ call'.err = IF call'.op = "set_image_size"
                                  /\ (call'.arg[1] = 0 \/ call'.arg[2] = 0)
                             THEN "BadParameter" ELSE "Busy"
              /\ tcalls' = {}
              /\ UNCHANGED <<prog, transport>>]_vars
C6_Witness ==
    /\ Capturing
    /\ Returned("set_image_size")
    /\ call.err = "Busy"
    /\ tAnnounced # {}

\* C7: allied_start_capture on an open handle with no frames, no buffer or no
\* descriptor array returns VmbErrorResources or VmbErrorBadParameter
\* without starting the capture engine, and leaves the handle idle.
C7_StartRefusesEmptyFrameSet ==
    (/\ Returned("start")
     /\ HandleLive
     /\ fb.num_frames = 0 \/ fb.buffer = NULL \/ fb.frames = NULL)
        => /\ call.err \in {"Resources", "BadParameter"}
           /\ "VmbCaptureStart" \notin tcalls
           /\ ~hnd.streaming
           /\ ~hnd.acquiring

\* C8: after a successful start followed by a successful stop, announced,
\* streaming and acquiring are false and the transport holds no announced
\* descriptor, so that the next start can announce the same descriptor
\* array again without a reallocation.
C8_StopAfterStartLeavesIdle ==
    (Returned("stop") /\ call.err = "Success" /\ "AcquisitionStop" \in tcalls)
        => /\ ~fb.announced
           /\ ~hnd.streaming
           /\ ~hnd.acquiring
           /\ tAnnounced = {}

C10_SuccessfulStopRevokesAll ==
    /\ (Returned("stop") /\ call.err = "Success" /\ tcalls # {})
          => /\ ~hnd.acquiring
             /\ ~hnd.streaming
             /\ ~fb.announced
             /\ tAnnounced = {}
    /\ (Returned("stop") /\ ffail.fn # "none")
          => ffail.fn \in {"AcquisitionStop", "VmbCaptureEnd"}

\* C11: a stop whose AcquisitionStop and capture-end calls succeeded returns
\* once revoke-all succeeds, which a fair transport eventually lets it do;
\* as long as revoke-all fails the call stays in its retry loop.
C11_StopReturnsOnceRevoked ==
    /\ (pc = "stop_flush") ~> (pc \notin {"stop_flush", "stop_revoke"})
    /\ [][(pc = "stop_revoke" /\ fb.announced /\ tAnnounced' # {})
             => (pc' = "stop_revoke" /\ call'.err = "Pending")]_vars
C11_Witness ==
    /\ pc = "stop_revoke"
    /\ call.op = "stop"
    /\ "VmbFrameRevokeAll" \in tcalls
    /\ tAnnounced # {}

\* C12: when the AcquisitionStop command fails inside allied_stop_capture,
\* the call returns the transport's error and changes nothing: acquiring,
\* streaming and announced are still true, and capture-end, queue flush and
\* revoke-all are not called.
C12_FailedAcquisitionStopChangesNothing ==
    [][(pc = "stop_acq" /\ call.op = "stop" /\ ffail'.fn = "AcquisitionStop")
           => /\ pc' = "ret"
              /\ call'.err = ffail'.err
              /\ call'.err \in TErrors
              /\ tcalls' = {"AcquisitionStop"}
              /\ UNCHANGED <<prog, transport>>
              /\ hnd'.acquiring
              /\ hnd'.streaming
              /\ fb'.announced]_vars

\* C13: when allied_start_capture fails because a transport call failed
\* (frame announce, capture-engine start, frame queue or AcquisitionStart)
\* it returns the error code of the first transport call that failed, not a
\* generic fault and not an error of the unwinding stop.
C13_StartReturnsFirstTransportError ==
    (Returned("start") /\ ffail.fn # "none")
        => /\ ffail.fn \in {"VmbFrameAnnounce", "VmbCaptureStart",
                            "VmbCaptureFrameQueue", "AcquisitionStart"}
           /\ call.err = ffail.err
           /\ call.err \notin {"Success", "InternalFault"}
C13_Witness ==
    /\ Returned("start")
    /\ ffail.fn = "AcquisitionStart"
    /\ call.err = ffail.err
    /\ "VmbCaptureEnd" \in tcalls
    /\ hnd.streaming

\* The frames of the handle's descriptor array.
Frames == 0..(fb.num_frames - 1)
AllAnnounced == \A k \in Frames : CurDesc(k) \in annCall
AllStored ==
    \A k \in Frames : /\ k \in DOMAIN fb.context
                      /\ fb.context[k].cb = call.arg[1]
                      /\ fb.context[k].data = call.arg[2]

\* C14: in a successful allied_start_capture every descriptor is announced
\* before the capture engine is started and streaming set, callback and
\* user context are stored in every descriptor before the first one is
\* queued, every descriptor is queued before AcquisitionStart is run, and
\* acquiring becomes true only after all of that succeeded.
C14_StartOrder ==
    /\ [](/\ (call.op = "start" /\ pc = "start_announce")
               => tcalls \subseteq {"VmbFrameAnnounce"}
          /\ (call.op = "start" /\ pc = "start_queue")
               => /\ AllAnnounced
                  /\ hnd.streaming /\ tCapturing
                  /\ AllStored
                  /\ "AcquisitionStart" \notin tcalls
          /\ \A d \in tQueued :
               (d.arr = fb.frames /\ d.idx \in DOMAIN fb.context)
                   => /\ fb.context[d.idx].cb \in Callbacks
                      /\ fb.context[d.idx].data \in UserData
          /\ (Returned("start") /\ call.err = "Success")
               => /\ AllAnnounced
                  /\ AllStored
                  /\ \A k \in Frames : CurDesc(k) \in tQueued
                  /\ hnd.streaming /\ hnd.acquiring /\ tAcquiring)
    /\ [][(~hnd.acquiring /\ hnd'.acquiring)
             => /\ pc = "start_queue" /\ i >= fb.num_frames
                /\ hnd.streaming
                /\ AllAnnounced
                /\ AllStored
                /\ \A k \in Frames : CurDesc(k) \in tQueued]_vars
C14_Witness ==
    /\ Returned("start")
    /\ call.err = "Success"
    /\ fb.num_frames = 2
    /\ Cardinality(tQueued) = 2

\* C15: when FrameCaptureCallback has written the context slots back, the
\* three slots of its frame hold what they held when the relay was entered,
\* whichever of them the user callback overwrote, and the requeue that ends
\* the relay leaves them alone.
C15_RelayRestoresSlots ==
    [][/\ (relay.pc = "called" /\ relay'.pc = "restored")
            => /\ relay.frame \in DOMAIN fb'.context
               /\ fb'.context[relay.frame] = relay.entry
       /\ (relay.pc = "restored" /\ relay'.pc = "idle")
            => fb'.context = fb.context]_vars
C15_Witness ==
    /\ relay.pc = "restored"
    /\ relay.touched = {"h", "data", "cb"}
    /\ fb.context[relay.frame] = Slots(href, StatPtr, CallbackFn)

\* C16: for every completion delivered the relay calls the user callback
\* once, with the handle and the callback and user context registered at
\* start, and makes one requeue call for the same descriptor; when
\* allied_stop_capture has returned success after N deliveries the callback
\* has run N times and the descriptor array is allocated and complete.
C16_OneCallbackPerCompletion ==
    /\ relay.pc = "idle"
         => rstat.calls = rstat.delivered /\ rstat.requeues = rstat.delivered
    /\ relay.pc = "entered"
         => /\ rstat.calls = rstat.delivered - 1
            /\ rstat.requeues = rstat.delivered - 1
            /\ relay.ihandle = href
            /\ relay.callback_handle \in Callbacks
            /\ relay.user_data \in UserData
    /\ relay.pc \in {"called", "restored"}
         => rstat.calls = rstat.delivered /\ rstat.requeues = rstat.delivered - 1
    /\ (Returned("stop") /\ call.err = "Success")
         => /\ rstat.calls = rstat.delivered
            /\ fb.frames \in live
            /\ DOMAIN fb.context = Frames

\* C17: whatever the interleaving of the completion thread with the caller,
\* when allied_stop_capture has stopped a capture and returned success no
\* user callback is about to start and the transport holds no descriptor of
\* the handle, queued or announced.
C17_NothingInFlightAfterStop ==
    (Returned("stop") /\ call.err = "Success" /\ tcalls # {})
        => /\ relay.pc # "entered"
           /\ tQueued = {}
           /\ tAnnounced = {}

\* C18: no block (handle structure, framebuffer structure, buffer memory,
\* descriptor array) is passed to free() twice, and when allied_close_camera
\* has returned success no block allocated for the handle is still
\* allocated.
C18_NoDoubleFreeNoLeak ==
    /\ ~dfree
    /\ (Returned("close") /\ call.err = "Success") => (live = {} /\ ~leaked)

\* C19: allied_close_camera, with the runtime initialized, stops the
\* capture, frees the buffers, closes the device, frees the handle and
\* nulls the caller's reference, in this order, and returns at the first step that fails: after a failed stop
\* nothing is freed, the device is not closed and the reference is kept;
\* the reference is nulled only when every step succeeded.
C19_CloseStopsAtFirstFailure ==
    /\ []((Returned("close") /\ is_init)
            => /\ (call.err = "Success") <=> (href = NULL)
               /\ ffail.fn \in {"none", "AcquisitionStop", "VmbCaptureEnd",
                                "VmbCameraClose"}
               /\ call.err = ffail.err
               /\ ffail.fn = "none"
                    => /\ "VmbCameraClose" \in tcalls
                       /\ ~devOpen
                       /\ fb = ZeroFb
               /\ ffail.fn \in {"AcquisitionStop", "VmbCaptureEnd"}
                    => /\ "VmbCameraClose" \notin tcalls
                       /\ devOpen
                       /\ href \in live
                       /\ fb.buffer \in live \cup {NULL}
                       /\ fb.frames \in live \cup {NULL}
               /\ ffail.fn = "VmbCameraClose"
                    => /\ fb = ZeroFb
                       /\ devOpen
                       /\ href \in live)
    /\ [][(call'.op = "close" /\ pc # "close_body")
             => /\ UNCHANGED <<href, live, devOpen>>
                /\ fb'.buffer = fb.buffer
                /\ fb'.frames = fb.frames]_vars
C19_Witness ==
    /\ Returned("close")
    /\ ffail.fn = "VmbCaptureEnd"
    /\ "AcquisitionStop" \in tcalls
    /\ fb.frames \in live

\* C20: allied_reset_camera, with the runtime initialized and whether the
\* DeviceReset command succeeds or fails, calls the device close, frees the
\* framebuffer memory and the handle, nulls the caller's reference and
\* returns the result of the DeviceReset command.
C20_ResetAlwaysReleases ==
    (Returned("reset") /\ is_init)
        => /\ "VmbCameraClose" \in tcalls
           /\ href = NULL
           /\ live = {}
           /\ ~leaked
           /\ call.err = IF ffail.fn = "DeviceReset" THEN ffail.err ELSE "Success"

\* The API calls that end in allied_realloc_framebuffer.
Setters == {"set_image_size", "set_binning_factor", "set_image_format"}

\* C21: when allied_realloc_framebuffer runs on an idle handle and the
\* transport reports the stored alignment and a payload size that is not
\* larger than alloc_size and equals the length of the existing descriptors,
\* it frees nothing, allocates nothing and leaves every field of the
\* framebuffer structure as it was.
C21_UnchangedReallocIsNoop ==
    [][(/\ pc = "realloc_body"
        /\ ~Capturing
        /\ lalign = fb.alignment
        /\ lpayload <= fb.alloc_size
        /\ fb.frames # NULL
        /\ lpayload = fb.bufferSize)
           => /\ rfreed' = {}
              /\ ralloc' = {}
              /\ live' = live
              /\ fb' = fb]_vars
C21_Witness ==
    /\ pc = "ret"
    /\ call.op \in Setters
    /\ call.err = "Success"
    /\ "VmbPayloadSizeGet" \in tcalls
    /\ rfreed = {}
    /\ ralloc = {}
    /\ fb.frames \in live
    /\ fb.num_frames > 0

\* C22: when allied_set_image_size succeeds on an idle handle and the new
\* payload size exceeds alloc_size, the old buffer and the old descriptor
\* array are each freed exactly once, the alignment is queried again from
\* the transport, the new alloc_size is at least the new payload size and
\* every new descriptor has the new payload size as its length.
C22_GrowingImageSizeReallocates ==
    [][(/\ pc = "realloc_body"
        /\ call.op = "set_image_size"
        /\ lpayload > fb.alloc_size
        /\ call'.err = "Success")
           => /\ fb.buffer # NULL => fb.buffer \in rfreed'
              /\ fb.frames # NULL => fb.frames \in rfreed'
              /\ rfreed' \subseteq live
              /\ ~dfree'
              /\ aq' # NoQuery
              /\ aq'.err = "Success"
              /\ fb'.alloc_size >= lpayload
              /\ fb'.frames \in live'
              /\ fb'.bufferSize = lpayload]_vars

\* C23: for every payload size > 0 and every alignment >= 1 the transport
\* reports, after an allocation or reallocation that succeeded the stored
\* alloc_size is a multiple of the stored alignment and at least the payload
\* size: rounding down to the alignment never truncates below the payload.
C23_AllocSizeCoversPayload ==
    (/\ pc = "ret"
     /\ call.op \in {"open"} \cup Setters
     /\ call.err = "Success"
     /\ fb.buffer \in live)
        => /\ fb.alignment >= 1
           /\ fb.alloc_size % fb.alignment = 0
           /\ fb.alloc_size >= payloadSize

\* C24: the buffer alignment is queried from the transport during every
\* allied_open_camera_generic and during every allied_start_capture, a
\* restart after a stop included, before a descriptor is announced.
C24_AlignmentQueriedOnOpenAndStart ==
    /\ (Returned("open") /\ call.err = "Success" /\ HandleLive)
          => "VmbCameraInfoQueryByHandle" \in tcalls
    /\ (call.op = "start" /\ annCall # {})
          => "VmbCameraInfoQueryByHandle" \in tcalls

\* C25: whenever the transport cannot report a buffer alignment (the read
\* of the alignment feature fails, or the value read is below 1) the
\* alignment handed to the allocator is 1 and the allocation goes ahead;
\* the alignment stored with an allocated buffer is always >= 1.
C25_AlignmentFallback ==
    /\ (aq.err = "Success" /\ (~aq.getOk \/ aq.raw < 1)) => aq.used = 1
    /\ fb.buffer # NULL => fb.alignment >= 1
    /\ (pc = "ret" /\ call.err = "Success" /\ aq.err = "Success" /\ fb.buffer \in live)
          => fb.alignment = aq.used
C25_Witness ==
    /\ Returned("open")
    /\ call.err = "Success"
    /\ aq.err = "Success"
    /\ aq.getOk
    /\ aq.raw = 0
    /\ fb.buffer \in live
    /\ fb.alignment = 1

\* C26: allied_init_api called again after a call that succeeded returns
\* success without calling the transport startup and without registering
\* another shutdown hook; a call that failed leaves the runtime marked
\* uninitialized, and the next call attempts the startup again.
C26_InitIdempotent ==
    /\ [](/\ startups = (IF is_init THEN 1 ELSE 0)
          /\ hooks = startups)
    /\ [][Calls("init_api")
             => /\ pc' = "ret"
                /\ is_init
                     => /\ call'.err = "Success"
                        /\ tcalls' = {}
                        /\ UNCHANGED <<is_init, startups, hooks>>
                /\ ~is_init
                     => /\ tcalls' = {"VmbStartup"}
                        /\ call'.err = "Success"
                             => (is_init' /\ startups' = 1 /\ hooks' = 1)
                        /\ call'.err # "Success"
                             => (~is_init' /\ UNCHANGED <<startups, hooks>>)]_vars
C26_Witness ==
    /\ Returned("init_api")
    /\ call.err = "Success"
    /\ tcalls = {}
    /\ is_init
    /\ startups = 1
    /\ hooks = 1

\* C27: under every interleaving of two or more threads that call
\* allied_init_api at the same time, the transport startup is performed
\* once: at most one call of VmbStartup succeeds and at most one shutdown
\* hook is registered.
C27_StartupOnceUnderRace == startups <= 1 /\ hooks <= 1

\* C28: while allied_init_api has never succeeded, allied_list_cameras,
\* allied_open_camera_generic, allied_start_capture, allied_stop_capture,
\* allied_close_camera, allied_reset_camera and allied_set_image_size each
\* return VmbErrorNotInitialized without a transport call and without
\* changing or freeing anything the handle refers to.
C28_UninitializedCallsRefused ==
    [][(/\ pc = "idle"
        /\ ~is_init
        /\ call'.op \in {"list_cameras", "open", "start", "stop", "close", "reset",
                         "set_image_size"})
           => /\ pc' = "ret"
              /\ call'.err = "NotInitialized"
              /\ tcalls' = {}
              /\ UNCHANGED <<prog, transport>>]_vars
C28_Witness ==
    /\ Returned("reset")
    /\ call.err = "NotInitialized"
    /\ tcalls = {}
    /\ ~is_init
    /\ startups = 0

\* C29: allied_get_binning_factor returns VmbErrorInternalFault, with the
\* output factor left at 0, whenever the transport reports a horizontal
\* binning factor different from the vertical one, and returns the common
\* value with VmbErrorSuccess when the two are equal.
C29_BinningMismatchIsInternalFault ==
    (Returned("get_binning_factor") /\ Len(call.arg) = 3 /\ ffail.fn = "none")
        => IF call.arg[1] # call.arg[2]
           THEN call.err = "InternalFault" /\ call.arg[3] = 0
           ELSE call.err = "Success" /\ call.arg[3] = call.arg[1]
C29_Witness ==
    /\ Returned("get_binning_factor")
    /\ call.err = "InternalFault"
    /\ call.arg = <<2, 1, 0>>
    /\ HandleLive

\* C30: whenever allied_start_capture returns an error after the capture
\* engine was started (a frame queue or the AcquisitionStart command
\* failed), the handle is idle on return (streaming, acquiring and
\* announced are false and nothing is announced at the transport), for
\* every outcome of the transport calls the unwinding stop makes.
C30_FailedStartLeavesIdle ==
    (Returned("start") /\ ffail.fn \in {"VmbCaptureFrameQueue", "AcquisitionStart"})
        => /\ ~hnd.streaming
           /\ ~hnd.acquiring
           /\ ~fb.announced
           /\ tAnnounced = {}

\* C31: allied_start_capture called while streaming or acquiring is already
\* true makes no transport call from its announce loop on: it announces no
\* descriptor, does not start the capture engine, queues no descriptor and
\* leaves the callback and user context stored in the descriptors alone.
\* (At start_announce the flags are still those the call found: the call
\* itself sets streaming only when it leaves that position.)
C31_StartWhileCapturingDoesNothing ==
    [][(pc = "start_announce" /\ call.op = "start" /\ Capturing)
           => /\ tcalls' = tcalls
              /\ UNCHANGED <<tAnnounced, tCapturing, tQueued>>
              /\ fb'.context = fb.context]_vars

\* C32: every descriptor allied_start_capture announces has a length
\* (frames[k].bufferSize) of at least the payload size the transport reports
\* at that moment, whatever setter calls were made in Idle state before,
\* those that failed after their first feature write included.
C32_AnnouncedLengthCoversPayload ==
    [][(pc = "start_announce" /\ annCall' # annCall)
           => fb.bufferSize >= payloadSize]_vars

C34_RevokeOnlyAfterCaptureEnd ==
    [][(pc = "stop_revoke" /\ "VmbFrameRevokeAll" \in tcalls')
           => /\ ~tCapturing
              /\ ~hnd.streaming
              /\ "VmbCaptureQueueFlush" \in tcalls]_vars
C34_Witness ==
    /\ Returned("stop")
    /\ call.err = "Success"
    /\ {"VmbCaptureEnd", "VmbCaptureQueueFlush", "VmbFrameRevokeAll"} \subseteq tcalls
    /\ ~tCapturing
    /\ tAnnounced = {}

\* alliedcam.c:475-476: the bytes of the buffer descriptor k covers, as
\* offsets from framebuf->buffer: from lo up to, not including, hi.
FrameSlice(k) == [lo |-> k * fb.bufferSize, hi |-> k * fb.bufferSize + fb.bufferSize]
\* The call that just returned rebuilt the descriptor array.
Rebuilt ==
    /\ pc = "ret"
    /\ call.op \in {"open"} \cup Setters
    /\ call.err = "Success"
    /\ fb.frames \in ralloc

\* C35: after a successful rebuild of the descriptor array by
\* allied_realloc_framebuffer, the descriptors start at the live buffer,
\* descriptor k covers payloadSize bytes from offset k * payloadSize, no two
\* descriptors overlap, and num_frames * payloadSize <= alloc_size: no
\* descriptor reaches past the end of the allocation.
C35_DescriptorsSliceTheBuffer ==
    Rebuilt
        => /\ fb.frames \in live
           /\ fb.base = fb.buffer
           /\ fb.buffer \in live
           /\ fb.bufferSize = payloadSize
           /\ DOMAIN fb.context = Frames
           /\ \A k \in Frames :
                 /\ FrameSlice(k).lo = k * payloadSize
                 /\ FrameSlice(k).hi - FrameSlice(k).lo = payloadSize
                 /\ FrameSlice(k).hi <= fb.alloc_size
                 /\ \A j \in Frames :
                       j < k => FrameSlice(j).hi <= FrameSlice(k).lo
           /\ fb.num_frames * payloadSize <= fb.alloc_size
C35_Witness ==
    /\ Rebuilt
    /\ call.op = "set_image_size"
    /\ fb.num_frames = 2
    /\ payloadSize = 1
    /\ fb.alloc_size = 2
    /\ rfreed # {}

\* C36: after a successful rebuild of the descriptor array with
\* alloc_size >= payloadSize > 0, the frame count lies in
\* 1..ALLIED_MAX_FRAMES: it is never 0, whatever the quotient
\* alloc_size / payloadSize is.
C36_FrameCountInRange ==
    (Rebuilt /\ payloadSize > 0 /\ fb.alloc_size >= payloadSize)
        => (1 <= fb.num_frames /\ fb.num_frames <= ALLIED_MAX_FRAMES)

\* C37: in every state between API calls, also after a call that failed
\* because the buffer or the descriptor array could not be allocated,
\* num_frames is the number of entries of the live descriptor array: with
\* num_frames > 0 the array is allocated, has that many descriptors, and they
\* point into the live buffer.
C37_FrameCountMatchesArray ==
    (pc \in {"idle", "ret"} /\ fb.num_frames > 0)
        => /\ fb.frames \in live
           /\ DOMAIN fb.context = Frames
           /\ fb.base = fb.buffer
           /\ fb.buffer \in live

\* C38: when allied_open_camera_generic fails after VmbCameraOpen
\* succeeded, it has called VmbCameraClose, every block it allocated is
\* freed exactly once (none is left allocated, none lost, none freed twice)
\* and the caller's handle variable does not hold the address of the freed
\* handle.
C38_FailedOpenUnwinds ==
    [][(/\ Calls("open")
        /\ call'.err # "Success"
        /\ "VmbCameraOpen" \in tcalls'
        /\ ffail'.fn # "VmbCameraOpen")
           => /\ "VmbCameraClose" \in tcalls'
              /\ live' = live
              /\ leaked' = leaked
              /\ dfree' = dfree
              /\ href' # DANGLING]_vars

\* C39: allied_open_camera_generic returns success only with the caller's
\* handle variable set to a live handle that is neither streaming nor
\* acquiring and has a non-empty descriptor array; and when it returns with
\* the runtime initialized and without having made any transport call (the
\* malloc of the handle or of the frame buffer structure failed, an id being
\* given), the result is VmbErrorResources.
C39_OpenSuccessMeansOpen ==
    /\ (Returned("open") /\ call.err = "Success")
          => /\ HandleLive
             /\ ~hnd.streaming
             /\ ~hnd.acquiring
             /\ fb.frames \in live
             /\ fb.num_frames > 0
    /\ (Returned("open") /\ is_init /\ tcalls = {})
          => call.err = "Resources"

\* C40: allied_get_feature_enum_list never passes to free() an address that
\* is not allocated at that moment, and what it leaves in *list and
\* *available is NULL or an allocated block: each array it allocated is
\* either handed to the caller allocated or freed once, whatever the two
\* range queries return and whether available is null or not.
C40_EnumListNoDoubleFreeNoDangling ==
    [][Calls("get_feature_enum_list")
           => /\ dfree' = dfree
              /\ call'.arg[1] \in {NULL} \cup live'
              /\ call'.arg[2] \in {NULL} \cup live'
              /\ live' \ live = {call'.arg[1], call'.arg[2]} \ {NULL}]_vars
====
